---- MODULE Spec2Model ----
(***************************************************************************)
(* The semantic chunker of src/qdrant_1.py: split_into_sentences and       *)
(* recursive_chunk_text.  A text is a sequence of one-character strings.   *)
(* Each running call of recursive_chunk_text is a frame of local           *)
(* variables; one action is one branch of one loop iteration.              *)
(* process_images_parallel is its main thread and the tasks of its worker  *)
(* pool; main's storing loop is one action per source.                     *)
(***************************************************************************)
EXTENDS Integers, Sequences, FiniteSets, TLC

VARIABLES
    frames,      \* caller -> the locals of its call of recursive_chunk_text
    sen_pc,      \* position of a direct call of split_into_sentences
    sen_text,    \* its argument
    sen_pieces,  \* what re.split returned (line 40)
    sen_result   \* what the call returned (line 41)

VARIABLES
    par_pc,       \* position of a call of process_images_parallel
    image_paths,  \* its argument image_paths
    max_workers,  \* its argument max_workers
    futures,      \* the submitted tasks, in the order of the dict `futures`
    next_future,  \* position of `for future in futures`
    results       \* the dict `results`: its items in insertion order

VARIABLES
    main_pc,          \* position of main's storing loop (lines 269-282)
    extracted_texts,  \* the items of the dict `extracted_texts`, in order
    next_source,      \* position of `for image_path, text in ...`
    collection,       \* the Qdrant collection: point id -> payload
    total_chunks,     \* main's local total_chunks
    store_errors      \* number of upserts that raised (line 160)

chunker_vars == <<frames, sen_pc, sen_text, sen_pieces, sen_result>>

par_vars == <<par_pc, image_paths, max_workers, futures, next_future, results>>

store_vars ==
    <<main_pc, extracted_texts, next_source, collection, total_chunks,
      store_errors>>

vars == <<chunker_vars, par_vars, store_vars>>

\* No call of process_images_parallel is made.
NoParallelCall ==
    /\ par_pc = "idle"
    /\ image_paths = <<>>
    /\ max_workers = 0
    /\ futures = <<>>
    /\ next_future = 1
    /\ results = <<>>

\* main's storing loop is not run.
NoStoring ==
    /\ main_pc = "idle"
    /\ extracted_texts = <<>>
    /\ next_source = 1
    /\ collection = {}
    /\ total_chunks = 0
    /\ store_errors = 0

(* ------------------------------ bounds --------------------------------- *)

MaxLen == 7

MaxSize == 4

SenLen == 6

NumCallers == 2

(* ---------------------------- characters ------------------------------- *)

NL == "\n"

SP == " "

\* Characters of the texts given to recursive_chunk_text.
Chars == {"a", ".", NL}

\* Characters of the texts given to split_into_sentences directly.
SenChars == {"A", "a", ".", "?", SP, NL}

Upper == {"A", "D", "S", "H"}

Lower == {"a", "d", "e", "h", "i", "l", "m", "r", "s", "t", "v", "w"}

WordChar == Upper \cup Lower

Whitespace == {SP, NL}

Punct == {".", "?", "!"}

Min(S) == CHOOSE x \in S : \A y \in S : x <= y

TextsUpTo(alphabet, n) == UNION {[1..k -> alphabet] : k \in 0..n}

(* ------------------------ split_into_sentences ------------------------- *)

\* (?<=\.|\?|\!) : the character before position i is '.', '?' or '!'.
LookbehindPunct(s, i) == i >= 2 /\ s[i-1] \in Punct

\* (?<!\w\.\w.) : the four characters before position i are
\* word-char, '.', word-char, any character but a newline.
LookbehindAbbrev(s, i) ==
    /\ i >= 5
    /\ s[i-4] \in WordChar
    /\ s[i-3] = "."
    /\ s[i-2] \in WordChar
    /\ s[i-1] # NL

\* The pattern without its second lookbehind.
LookbehindTitleNever(s, i) == FALSE

\* (?<![A-Z][a-z]\.) : the three characters before position i are
\* an uppercase letter, a lowercase letter, '.'.
LookbehindTitle(s, i) ==
    /\ i >= 4
    /\ s[i-3] \in Upper
    /\ s[i-2] \in Lower
    /\ s[i-1] = "."

\* The pattern matches the single character at position i.
PatternMatches(s, i) ==
    /\ i \in 1..Len(s)
    /\ ~LookbehindAbbrev(s, i)
    /\ ~LookbehindTitle(s, i)
    /\ LookbehindPunct(s, i)
    /\ s[i] \in Whitespace

\* re.split: scan from `start` for the leftmost match, cut there, drop the
\* matched character, go on after it.
RECURSIVE re_split_from(_, _)
re_split_from(s, start) ==
    LET hits == {i \in start..Len(s) : PatternMatches(s, i)}
    IN  IF hits = {}
        THEN <<SubSeq(s, start, Len(s))>>
        ELSE LET i == Min(hits)
             IN  <<SubSeq(s, start, i - 1)>> \o re_split_from(s, i + 1)

re_split(s) == re_split_from(s, 1)

RECURSIVE lstrip(_)
lstrip(s) ==
    IF Len(s) > 0 /\ s[1] \in Whitespace THEN lstrip(Tail(s)) ELSE s

RECURSIVE rstrip(_)
rstrip(s) ==
    IF Len(s) > 0 /\ s[Len(s)] \in Whitespace
    THEN rstrip(SubSeq(s, 1, Len(s) - 1))
    ELSE s

\* str.strip()
strip(s) == rstrip(lstrip(s))

\* [s.strip() for s in sentences if s.strip()]
StripNonBlank(pieces) ==
    LET stripped == [k \in 1..Len(pieces) |-> strip(pieces[k])]
    IN  SelectSeq(stripped, LAMBDA x : Len(x) > 0)

split_into_sentences(text) == StripNonBlank(re_split(text))

(* ------------------------ recursive_chunk_text ------------------------- *)

\* text.split('\n\n'): cut at the leftmost blank-line separator, go on
\* after it; a text without separator is one paragraph.
RECURSIVE str_split(_)
str_split(s) ==
    LET hits == {i \in 1..(Len(s) - 1) : s[i] = NL /\ s[i+1] = NL}
    IN  IF hits = {}
        THEN <<s>>
        ELSE LET i == Min(hits)
             IN  <<SubSeq(s, 1, i - 1)>> \o str_split(SubSeq(s, i + 2, Len(s)))

\* The argument `text` of a call: a string, None, or an integer.
StrArg(t) == [kind |-> "str", str |-> t, num |-> 0]

NoneArg == [kind |-> "none", str |-> <<>>, num |-> 0]

IntArg(n) == [kind |-> "int", str |-> <<>>, num |-> n]

\* `text == ""` in place of `not text`.
FalsyOnlyEmptyStr(arg) == arg.kind = "str" /\ Len(arg.str) = 0

\* `not text`: None, 0 and "" are false.
Falsy(arg) ==
    CASE arg.kind = "none" -> TRUE
      [] arg.kind = "int"  -> arg.num = 0
      [] arg.kind = "str"  -> Len(arg.str) = 0

\* The locals of a call that has not yet executed its first statement.
\* pc is the statement the call is at: "call" (line 45), "para" (line 54),
\* "sent" (line 67), "done".  paragraphs and sentences hold what the two
\* for-loops have still to visit.  units records, in order, each value of
\* `paragraph` handled by lines 55-57 or 77-79 and each value of `sentence`.
NewFrame(arg, max) ==
    [pc             |-> "call",
     text           |-> arg,
     max_chunk_size |-> max,
     paragraphs     |-> <<>>,
     chunks         |-> <<>>,
     current_chunk  |-> <<>>,
     sentences      |-> <<>>,
     sentence_chunk |-> <<>>,
     units          |-> <<>>,
     outcome        |-> "pending"]

\* `if not text: return []`
ReturnEmptyGuard(f) == f.pc = "call" /\ Falsy(f.text)

return_empty(f) == [f EXCEPT !.pc = "done", !.outcome = "returned"]

\* text.split on a value that is no string: AttributeError leaves the call.
RaiseGuard(f) == f.pc = "call" /\ ~Falsy(f.text) /\ f.text.kind # "str"

raise_attribute_error(f) ==
    [f EXCEPT !.pc = "done", !.outcome = "AttributeError"]

\* paragraphs = text.split('\n\n'); chunks = []; current_chunk = ""
EnterGuard(f) == f.pc = "call" /\ ~Falsy(f.text) /\ f.text.kind = "str"

enter(f) ==
    [f EXCEPT !.pc = "para",
              !.paragraphs = str_split(f.text.str),
              !.chunks = <<>>,
              !.current_chunk = <<>>]

\* The paragraph loop has a next paragraph.
HasParagraph(f) == f.pc = "para" /\ Len(f.paragraphs) > 0

\* if len(current_chunk) + len(paragraph) > max_chunk_size and current_chunk
ParaOverflows(f) ==
    /\ Len(f.current_chunk) + Len(Head(f.paragraphs)) > f.max_chunk_size
    /\ Len(f.current_chunk) > 0

\* elif len(paragraph) > max_chunk_size
ParaTooLarge(f) == Len(Head(f.paragraphs)) > f.max_chunk_size

\* para_flush without chunks.append(current_chunk).
para_flush_drop(f) ==
    [f EXCEPT !.current_chunk = Head(f.paragraphs),
              !.units = Append(@, Head(f.paragraphs)),
              !.paragraphs = Tail(@)]

\* chunks.append(current_chunk); current_chunk = paragraph
para_flush(f) ==
    [f EXCEPT !.chunks = Append(@, f.current_chunk),
              !.current_chunk = Head(f.paragraphs),
              !.units = Append(@, Head(f.paragraphs)),
              !.paragraphs = Tail(@)]

\* if current_chunk: chunks.append(current_chunk); current_chunk = ""
\* sentences = split_into_sentences(paragraph); sentence_chunk = ""
para_split(f) ==
    [f EXCEPT !.pc = "sent",
              !.chunks = IF Len(f.current_chunk) > 0
                         THEN Append(@, f.current_chunk) ELSE @,
              !.current_chunk = <<>>,
              !.sentences = split_into_sentences(Head(f.paragraphs)),
              !.sentence_chunk = <<>>,
              !.paragraphs = Tail(@)]

\* The separator without the test of current_chunk.
ParaSeparatorAlways(cur) == <<NL, NL>>

\* separator = "\n\n" if current_chunk else ""
ParaSeparator(cur) == IF Len(cur) > 0 THEN <<NL, NL>> ELSE <<>>

\* current_chunk += separator + paragraph
para_append(f) ==
    [f EXCEPT !.current_chunk =
                  @ \o ParaSeparator(f.current_chunk) \o Head(f.paragraphs),
              !.units = Append(@, Head(f.paragraphs)),
              !.paragraphs = Tail(@)]

\* The sentence loop has a next sentence.
HasSentence(f) == f.pc = "sent" /\ Len(f.sentences) > 0

\* if len(sentence_chunk) + len(sentence) > max_chunk_size and sentence_chunk
SentOverflows(f) ==
    /\ Len(f.sentence_chunk) + Len(Head(f.sentences)) > f.max_chunk_size
    /\ Len(f.sentence_chunk) > 0

\* chunks.append(sentence_chunk); sentence_chunk = sentence
sent_flush(f) ==
    [f EXCEPT !.chunks = Append(@, f.sentence_chunk),
              !.sentence_chunk = Head(f.sentences),
              !.units = Append(@, Head(f.sentences)),
              !.sentences = Tail(@)]

\* separator = " " if sentence_chunk else ""
SentSeparator(cur) == IF Len(cur) > 0 THEN <<SP>> ELSE <<>>

\* sentence_chunk += separator + sentence
sent_append(f) ==
    [f EXCEPT !.sentence_chunk =
                  @ \o SentSeparator(f.sentence_chunk) \o Head(f.sentences),
              !.units = Append(@, Head(f.sentences)),
              !.sentences = Tail(@)]

\* The sentence loop is over.
SentencesDone(f) == f.pc = "sent" /\ Len(f.sentences) = 0

\* if sentence_chunk: current_chunk = sentence_chunk
sent_done(f) ==
    [f EXCEPT !.pc = "para",
              !.current_chunk = IF Len(f.sentence_chunk) > 0
                                THEN f.sentence_chunk ELSE @]

\* The paragraph loop is over.
ParagraphsDone(f) == f.pc = "para" /\ Len(f.paragraphs) = 0

\* if current_chunk: chunks.append(current_chunk); return chunks
return_chunks(f) ==
    [f EXCEPT !.pc = "done",
              !.outcome = "returned",
              !.chunks = IF Len(f.current_chunk) > 0
                         THEN Append(@, f.current_chunk) ELSE @]

\* One statement-level step of a call, by the branch its guards select.
StepFrame(f) ==
    CASE ReturnEmptyGuard(f) -> return_empty(f)
      [] RaiseGuard(f)       -> raise_attribute_error(f)
      [] EnterGuard(f)       -> enter(f)
      [] HasParagraph(f) /\ ParaOverflows(f) -> para_flush(f)
      [] HasParagraph(f) /\ ~ParaOverflows(f) /\ ParaTooLarge(f) -> para_split(f)
      [] HasParagraph(f) /\ ~ParaOverflows(f) /\ ~ParaTooLarge(f) -> para_append(f)
      [] HasSentence(f) /\ SentOverflows(f)  -> sent_flush(f)
      [] HasSentence(f) /\ ~SentOverflows(f) -> sent_append(f)
      [] SentencesDone(f)    -> sent_done(f)
      [] ParagraphsDone(f)   -> return_chunks(f)

\* A call run from its first statement to its end with nothing interleaved.
RECURSIVE RunFrame(_)
RunFrame(f) == IF f.pc = "done" THEN f ELSE RunFrame(StepFrame(f))

recursive_chunk_text(arg, max) == RunFrame(NewFrame(arg, max))

(* ------------------------------ actions -------------------------------- *)

\* The threads that may call recursive_chunk_text.
Callers == 1..NumCallers

\* The frame of a thread that makes no call.
IdleFrame == [NewFrame(NoneArg, 1) EXCEPT !.pc = "idle"]

\* current_chunk as one module-level variable, the one caller 1 writes.
SharedAccumulator(c) ==
    [frames[c] EXCEPT !.current_chunk = frames[1].current_chunk]

\* The locals that the call of caller c reads.
Locals(c) == frames[c]

Update(c, f) ==
    /\ frames' = [frames EXCEPT ![c] = f]
    /\ UNCHANGED <<sen_pc, sen_text, sen_pieces, sen_result>>
    /\ UNCHANGED <<par_vars, store_vars>>

ReturnEmpty(c) == ReturnEmptyGuard(Locals(c)) /\ Update(c, return_empty(Locals(c)))

Raise(c) == RaiseGuard(Locals(c)) /\ Update(c, raise_attribute_error(Locals(c)))

Enter(c) == EnterGuard(Locals(c)) /\ Update(c, enter(Locals(c)))

ParaFlush(c) ==
    /\ HasParagraph(Locals(c))
    /\ ParaOverflows(Locals(c))
    /\ Update(c, para_flush(Locals(c)))

ParaSplit(c) ==
    /\ HasParagraph(Locals(c))
    /\ ~ParaOverflows(Locals(c))
    /\ ParaTooLarge(Locals(c))
    /\ Update(c, para_split(Locals(c)))

ParaAppend(c) ==
    /\ HasParagraph(Locals(c))
    /\ ~ParaOverflows(Locals(c))
    /\ ~ParaTooLarge(Locals(c))
    /\ Update(c, para_append(Locals(c)))

SentFlush(c) ==
    /\ HasSentence(Locals(c))
    /\ SentOverflows(Locals(c))
    /\ Update(c, sent_flush(Locals(c)))

SentAppend(c) ==
    /\ HasSentence(Locals(c))
    /\ ~SentOverflows(Locals(c))
    /\ Update(c, sent_append(Locals(c)))

SentDone(c) == SentencesDone(Locals(c)) /\ Update(c, sent_done(Locals(c)))

Return(c) == ParagraphsDone(Locals(c)) /\ Update(c, return_chunks(Locals(c)))

\* A direct call of split_into_sentences(sen_text).
SplitSentences ==
    /\ sen_pc = "call"
    /\ sen_pc' = "done"
    /\ sen_pieces' = re_split(sen_text)
    /\ sen_result' = StripNonBlank(re_split(sen_text))
    /\ UNCHANGED <<frames, sen_text, par_vars, store_vars>>

NoSentenceCall ==
    /\ sen_pc = "idle"
    /\ sen_text = <<>>
    /\ sen_pieces = <<>>
    /\ sen_result = <<>>

Args ==
    {StrArg(t) : t \in TextsUpTo(Chars, MaxLen)}
        \cup {NoneArg} \cup {IntArg(n) : n \in 0..1}

\* One call of recursive_chunk_text.
Init ==
    /\ \E arg \in Args, max \in 1..MaxSize :
           frames = [c \in Callers |->
                        IF c = 1 THEN NewFrame(arg, max) ELSE IdleFrame]
    /\ NoSentenceCall
    /\ NoParallelCall
    /\ NoStoring

Next ==
    \E c \in Callers :
        \/ ReturnEmpty(c)
        \/ Raise(c)
        \/ Enter(c)
        \/ ParaFlush(c)
        \/ ParaSplit(c)
        \/ ParaAppend(c)
        \/ SentFlush(c)
        \/ SentAppend(c)
        \/ SentDone(c)
        \/ Return(c)

Spec == Init /\ [][Next]_vars

(* ------------------- split_into_sentences called alone ------------------ *)

\* "Dr. Smith arrived. He was late."
DrSmith ==
    <<"D", "r", ".", SP, "S", "m", "i", "t", "h", SP,
      "a", "r", "r", "i", "v", "e", "d", ".", SP,
      "H", "e", SP, "w", "a", "s", SP, "l", "a", "t", "e", ".">>

InitSen ==
    /\ frames = [c \in Callers |-> IdleFrame]
    /\ sen_pc = "call"
    /\ sen_text \in TextsUpTo(SenChars, SenLen) \cup {DrSmith}
    /\ sen_pieces = <<>>
    /\ sen_result = <<>>
    /\ NoParallelCall
    /\ NoStoring

NextSen == SplitSentences

SpecSen == InitSen /\ [][NextSen]_vars

(* ----------------------- several calls at once ------------------------- *)

ConcTexts ==
    {<<>>,
     <<"a", NL, NL, "a">>,
     <<"a", ".", NL, "a">>,
     <<"a", NL, NL, "a", ".", NL, "a", "a">>}

ConcSizes == {1, 3}

ConcArgs == {StrArg(t) : t \in ConcTexts} \cup {NoneArg, IntArg(1)}

InitConc ==
    /\ frames \in [Callers ->
                     {NewFrame(arg, max) : arg \in ConcArgs, max \in ConcSizes}]
    /\ NoSentenceCall
    /\ NoParallelCall
    /\ NoStoring

SpecConc == InitConc /\ [][Next]_vars

(* ---------------------- process_images_parallel ------------------------- *)

MaxPaths == 3

MaxWorkers == 2

\* The paths image_paths is drawn from.
PathNames == {"p.png", "q.png", "r.png"}

\* What response.text can be when generate_content succeeds.
RawResponses == {<<SP>>, <<"a", SP>>, <<NL, ".">>}

\* executor.submit(process_image_to_text, path): a task waiting in the
\* executor's queue, and its future.
NewFuture(path) == [path |-> path, state |-> "queued", text |-> <<>>]

\* Every path of image_paths has been submitted (the dict comprehension of
\* line 226 is over).
AllSubmitted == Len(futures) = Len(image_paths)

\* The tasks a worker thread is running.
Running == {t \in 1..Len(futures) : futures[t].state = "running"}

\* The tasks still in the executor's queue.
Queued == {t \in 1..Len(futures) : futures[t].state = "queued"}

\* A read of the future that does not wait for the task.
ResultReadyNoWait(t) == TRUE

\* future.result() returns once the task has finished.
ResultReady(t) == futures[t].state = "finished"

\* results[path] = text on a dict that keeps insertion order: a known key
\* keeps its place and takes the new value, a new key goes last.
DictSet(d, key, value) ==
    IF \E k \in 1..Len(d) : d[k].path = key
    THEN [k \in 1..Len(d) |->
             IF d[k].path = key THEN [path |-> key, text |-> value] ELSE d[k]]
    ELSE Append(d, [path |-> key, text |-> value])

ParUnchanged == UNCHANGED <<chunker_vars, store_vars>>

\* futures = {executor.submit(process_image_to_text, path): path for ...}:
\* the next path is submitted.
Submit ==
    /\ par_pc = "with"
    /\ ~AllSubmitted
    /\ futures' = Append(futures, NewFuture(image_paths[Len(futures) + 1]))
    /\ UNCHANGED <<par_pc, image_paths, max_workers, next_future, results>>
    /\ ParUnchanged

\* A worker thread takes the oldest task of the queue; at most max_workers
\* threads exist.
WorkerStart(t) ==
    /\ par_pc = "with"
    /\ t \in Queued
    /\ t = Min(Queued)
    /\ Cardinality(Running) < max_workers
    /\ futures' = [futures EXCEPT ![t].state = "running"]
    /\ UNCHANGED <<par_pc, image_paths, max_workers, next_future, results>>
    /\ ParUnchanged

\* process_image_to_text returns response.text.strip().
ExtractText(t, raw) ==
    /\ par_pc = "with"
    /\ t \in Running
    /\ futures' = [futures EXCEPT ![t].state = "finished", ![t].text = strip(raw)]
    /\ UNCHANGED <<par_pc, image_paths, max_workers, next_future, results>>
    /\ ParUnchanged

\* process_image_to_text catches an exception and returns "".
ExtractFails(t) ==
    /\ par_pc = "with"
    /\ t \in Running
    /\ futures' = [futures EXCEPT ![t].state = "finished", ![t].text = <<>>]
    /\ UNCHANGED <<par_pc, image_paths, max_workers, next_future, results>>
    /\ ParUnchanged

\* The loop of line 227 is at a future.
HasFuture == par_pc = "with" /\ AllSubmitted /\ next_future <= Len(futures)

\* text = future.result(); if text: results[path] = text
CollectText ==
    /\ HasFuture
    /\ ResultReady(next_future)
    /\ Len(futures[next_future].text) > 0
    /\ results' = DictSet(results, futures[next_future].path,
                          futures[next_future].text)
    /\ next_future' = next_future + 1
    /\ UNCHANGED <<par_pc, image_paths, max_workers, futures>>
    /\ ParUnchanged

\* text = future.result(); text is empty: nothing is stored.
CollectEmpty ==
    /\ HasFuture
    /\ ResultReady(next_future)
    /\ Len(futures[next_future].text) = 0
    /\ next_future' = next_future + 1
    /\ UNCHANGED <<par_pc, image_paths, max_workers, futures, results>>
    /\ ParUnchanged

\* The with-block ends: executor.shutdown(wait=True) waits for every task,
\* then `return results`.
ReturnResults ==
    /\ par_pc = "with"
    /\ AllSubmitted
    /\ next_future > Len(futures)
    /\ Running = {} /\ Queued = {}
    /\ par_pc' = "returned"
    /\ UNCHANGED <<image_paths, max_workers, futures, next_future, results>>
    /\ ParUnchanged

\* One call of process_images_parallel(image_paths, max_workers).
InitPar ==
    /\ frames = [c \in Callers |-> IdleFrame]
    /\ NoSentenceCall
    /\ NoStoring
    /\ par_pc = "with"
    /\ image_paths \in TextsUpTo(PathNames, MaxPaths)
    /\ max_workers \in 1..MaxWorkers
    /\ futures = <<>>
    /\ next_future = 1
    /\ results = <<>>

NextPar ==
    \/ Submit
    \/ \E t \in 1..MaxPaths : WorkerStart(t)
    \/ \E t \in 1..MaxPaths, raw \in RawResponses : ExtractText(t, raw)
    \/ \E t \in 1..MaxPaths : ExtractFails(t)
    \/ CollectText
    \/ CollectEmpty
    \/ ReturnResults

SpecPar == InitPar /\ [][NextPar]_vars

(* ------------- main: chunking and storing source by source ------------- *)

MaxSources == 2

\* The max_chunk_size of main's call recursive_chunk_text(text):
\* MAX_CHUNK_SIZE, 1000 in the source, scaled down to the texts below.
StoreChunkSize == 1

\* The extracted texts: non-empty and stripped (lines 107 and 231).
SourceTexts == {t \in ConcTexts : Len(t) > 0}

\* The items of extracted_texts: distinct sources, each with a text.
SourceItems ==
    {items \in UNION {[1..n -> [source_image : PathNames, text : SourceTexts]] :
                          n \in 1..MaxSources} :
        \A i, j \in 1..Len(items) :
            items[i].source_image = items[j].source_image => i = j}

\* models.PointStruct(id=i, ..., payload={...}) for the chunk at position k
\* of chunks; enumerate counts from 0.
PointStruct(chunks, k, source_image) ==
    [id           |-> k - 1,
     text         |-> chunks[k],
     source_image |-> source_image,
     chunk_index  |-> k - 1,
     chunk_level  |-> "semantic"]

\* qdrant_client.upsert: a point replaces the stored point of the same id.
Upsert(stored, points) ==
    {q \in stored : \A p \in points : p.id # q.id} \cup points

\* The loop of line 270 is at a source.
HasSource == main_pc = "loop" /\ next_source <= Len(extracted_texts)

\* chunks = recursive_chunk_text(text)
SourceChunks ==
    recursive_chunk_text(StrArg(extracted_texts[next_source].text),
                         StoreChunkSize).chunks

\* The points built from the chunks whose embedding was generated.
PointsOf(embedded) ==
    {PointStruct(SourceChunks, k, extracted_texts[next_source].source_image) :
        k \in embedded}

StoreUnchanged == UNCHANGED <<chunker_vars, par_vars>>

\* One source is chunked; get_embedding succeeds for the chunks at the
\* positions `embedded`; the upsert succeeds; total_chunks += len(points).
StoreSource(embedded) ==
    /\ HasSource
    /\ embedded \subseteq 1..Len(SourceChunks)
    /\ embedded # {}
    /\ collection' = Upsert(collection, PointsOf(embedded))
    /\ total_chunks' = total_chunks + Cardinality(PointsOf(embedded))
    /\ next_source' = next_source + 1
    /\ UNCHANGED <<main_pc, extracted_texts, store_errors>>
    /\ StoreUnchanged

\* get_embedding returns None for every chunk: no point, nothing upserted,
\* store_chunks_in_qdrant returns 0.
StoreNoPoint ==
    /\ HasSource
    /\ next_source' = next_source + 1
    /\ UNCHANGED <<main_pc, extracted_texts, collection, total_chunks,
                   store_errors>>
    /\ StoreUnchanged

\* The upsert raises: the error is printed and store_chunks_in_qdrant
\* returns 0.
StoreUpsertRaises ==
    /\ HasSource
    /\ Len(SourceChunks) > 0
    /\ store_errors' = store_errors + 1
    /\ next_source' = next_source + 1
    /\ UNCHANGED <<main_pc, extracted_texts, collection, total_chunks>>
    /\ StoreUnchanged

\* print(f"Stored {total_chunks} chunks in Qdrant.")
FinishStoring ==
    /\ main_pc = "loop"
    /\ next_source > Len(extracted_texts)
    /\ main_pc' = "done"
    /\ UNCHANGED <<extracted_texts, next_source, collection, total_chunks,
                   store_errors>>
    /\ StoreUnchanged

\* main at line 269, with an empty collection.
InitStore ==
    /\ frames = [c \in Callers |-> IdleFrame]
    /\ NoSentenceCall
    /\ NoParallelCall
    /\ main_pc = "loop"
    /\ extracted_texts \in SourceItems
    /\ next_source = 1
    /\ collection = {}
    /\ total_chunks = 0
    /\ store_errors = 0

NextStore ==
    \/ \E embedded \in SUBSET (1..MaxLen) : StoreSource(embedded)
    \/ StoreNoPoint
    \/ StoreUpsertRaises
    \/ FinishStoring

SpecStore == InitStore /\ [][NextStore]_vars

(* ------------------------------ claims --------------------------------- *)

Range(q) == {q[k] : k \in 1..Len(q)}

RECURSIVE Flatten(_)
Flatten(qs) == IF Len(qs) = 0 THEN <<>> ELSE Head(qs) \o Flatten(Tail(qs))

NonWhitespace(s) == SelectSeq(s, LAMBDA ch : ch \notin Whitespace)

Blank(s) == \A k \in 1..Len(s) : s[k] \in Whitespace

\* The call of caller c has returned a chunk sequence for a string argument.
ReturnedStr(c) ==
    /\ frames[c].pc = "done"
    /\ frames[c].outcome = "returned"
    /\ frames[c].text.kind = "str"

\* The sentences of the paragraphs of text t.
SentencesOfText(t) ==
    UNION {Range(split_into_sentences(p)) : p \in Range(str_split(t))}

\* C1: every returned chunk has length <= maxSize, unless the chunk is
\* exactly one single sentence whose own length exceeds maxSize.
C1_ChunkWithinMaxOrOneSentence ==
    \A c \in Callers :
        ReturnedStr(c) =>
            \A k \in 1..Len(frames[c].chunks) :
                LET chunk == frames[c].chunks[k]
                IN  \/ Len(chunk) <= frames[c].max_chunk_size
                    \/ chunk \in SentencesOfText(frames[c].text.str)

\* units[k..] laid out in chunks[ci..] from position pos of chunks[ci] on:
\* each unit whole and inside one chunk, the units in order, and nothing but
\* whitespace between, before and after them.
RECURSIVE LaidOut(_, _, _, _, _)
LaidOut(chunks, units, ci, pos, k) ==
    IF ci > Len(chunks)
    THEN k > Len(units)
    ELSE IF pos > Len(chunks[ci])
    THEN LaidOut(chunks, units, ci + 1, 1, k)
    ELSE \/ /\ k <= Len(units)
            /\ pos + Len(units[k]) - 1 <= Len(chunks[ci])
            /\ SubSeq(chunks[ci], pos, pos + Len(units[k]) - 1) = units[k]
            /\ LaidOut(chunks, units, ci, pos + Len(units[k]), k + 1)
         \/ /\ chunks[ci][pos] \in Whitespace
            /\ LaidOut(chunks, units, ci, pos + 1, k)

\* C2: for a non-empty text the chunks partition the input: read in order
\* they hold every unit (each paragraph that was not sentence-split, each
\* sentence of a sentence-split paragraph) exactly once, whole, in input
\* order and inside one chunk; only whitespace at unit boundaries differs,
\* so the non-whitespace characters of the chunks are those of the text.
C2_ChunksPartitionInput ==
    \A c \in Callers :
        (ReturnedStr(c) /\ Len(frames[c].text.str) > 0) =>
            /\ LaidOut(frames[c].chunks,
                       SelectSeq(frames[c].units, LAMBDA u : Len(u) > 0), 1, 1, 1)
            /\ NonWhitespace(Flatten(frames[c].chunks))
                   = NonWhitespace(frames[c].text.str)

\* A returned call that sentence-split a paragraph, handled at least three
\* units and produced at least two chunks.
C2_Witness ==
    \E c \in Callers :
        /\ ReturnedStr(c)
        /\ Len(frames[c].chunks) >= 2
        /\ Len(frames[c].units) >= 3
        /\ \E p \in Range(str_split(frames[c].text.str)) :
               /\ Len(p) > frames[c].max_chunk_size
               /\ Range(split_into_sentences(p)) \subseteq Range(frames[c].units)
               /\ Len(split_into_sentences(p)) >= 2

\* C3 as stated: for len(text) <= maxSize the result is empty when text is
\* empty and otherwise exactly one chunk equal to text.
C3_ShortTextIsOneChunk ==
    \A c \in Callers :
        (ReturnedStr(c) /\ Len(frames[c].text.str) <= frames[c].max_chunk_size) =>
            frames[c].chunks = IF Len(frames[c].text.str) = 0
                               THEN <<>>
                               ELSE <<frames[c].text.str>>

RECURSIVE DropLeadingSeparators(_)
DropLeadingSeparators(t) ==
    IF Len(t) >= 2 /\ t[1] = NL /\ t[2] = NL
    THEN DropLeadingSeparators(SubSeq(t, 3, Len(t)))
    ELSE t

\* C3 amended: for len(text) <= maxSize the result is empty when text is
\* empty or only paragraph separators, and otherwise exactly one chunk: text
\* without its leading paragraph separators (text itself when its first
\* paragraph is not empty).
C3_ShortTextIsOneChunkSansLeadingSeparators ==
    \A c \in Callers :
        (ReturnedStr(c) /\ Len(frames[c].text.str) <= frames[c].max_chunk_size) =>
            LET rest == DropLeadingSeparators(frames[c].text.str)
            IN  frames[c].chunks = IF Len(rest) = 0 THEN <<>> ELSE <<rest>>

\* A text of two non-empty paragraphs, no longer than maxSize, returned as
\* the one chunk equal to it.
C3_Witness ==
    \E c \in Callers :
        /\ ReturnedStr(c)
        /\ Len(frames[c].text.str) <= frames[c].max_chunk_size
        /\ Len(str_split(frames[c].text.str)) = 2
        /\ \A p \in Range(str_split(frames[c].text.str)) : Len(p) > 0
        /\ frames[c].chunks = <<frames[c].text.str>>

\* C4: whitespace-only paragraphs and sentences are discarded: no returned
\* chunk is empty or only whitespace, and a text whose paragraphs are all
\* whitespace-only yields no chunk.
C4_NoBlankChunk ==
    \A c \in Callers :
        ReturnedStr(c) =>
            /\ \A k \in 1..Len(frames[c].chunks) : ~Blank(frames[c].chunks[k])
            /\ (\A p \in Range(str_split(frames[c].text.str)) : Blank(p))
                   => frames[c].chunks = <<>>

\* C5 as stated: a call whose argument is not text ends in an InvalidInput
\* error and never returns a chunk sequence.
C5_NonTextIsInvalidInput ==
    \A c \in Callers :
        (frames[c].pc = "done" /\ frames[c].text.kind # "str") =>
            frames[c].outcome = "InvalidInput"

\* C5 amended: a call with None or the integer 0 returns the empty chunk
\* sequence; a call with a non-zero integer ends in an AttributeError raised
\* to the caller and returns no chunk sequence.
C5_NonTextReturnsEmptyOrRaises ==
    \A c \in Callers :
        (frames[c].pc = "done" /\ frames[c].text.kind # "str") =>
            IF frames[c].text.kind = "none" \/ frames[c].text.num = 0
            THEN frames[c].outcome = "returned" /\ frames[c].chunks = <<>>
            ELSE frames[c].outcome = "AttributeError" /\ frames[c].chunks = <<>>

\* A finished call whose argument was None.
C5_Witness ==
    \E c \in Callers :
        /\ frames[c].pc = "done"
        /\ frames[c].text.kind = "none"
        /\ frames[c].outcome = "returned"

\* C6: every sentence longer than maxSize is emitted whole as a chunk of its
\* own (the chunk, trimmed, is that sentence), and the call raises no error.
C6_OversizedSentenceIsOwnChunk ==
    \A c \in Callers :
        (frames[c].pc = "done" /\ frames[c].text.kind = "str") =>
            /\ frames[c].outcome = "returned"
            /\ \A s \in SentencesOfText(frames[c].text.str) :
                   Len(s) > frames[c].max_chunk_size =>
                       \E k \in 1..Len(frames[c].chunks) :
                           strip(frames[c].chunks[k]) = s

\* The position in the text of the character that re.split dropped after
\* the k-th piece.
RECURSIVE CutAfter(_, _)
CutAfter(pieces, k) ==
    IF k = 0 THEN 0 ELSE CutAfter(pieces, k - 1) + Len(pieces[k]) + 1

\* The rule of C7 for a split at position i of s: a whitespace character
\* right after '.', '?' or '!', unless that punctuation ends a
\* "word-char dot word-char" pattern or is the dot of
\* "uppercase letter, lowercase letter, dot".
SplitPoint(s, i) ==
    /\ s[i] \in Whitespace
    /\ i >= 2
    /\ s[i-1] \in Punct
    /\ ~(i >= 5 /\ s[i-4] \in WordChar /\ s[i-3] = "." /\ s[i-2] \in WordChar)
    /\ ~(i >= 4 /\ s[i-3] \in Upper /\ s[i-2] \in Lower /\ s[i-1] = ".")

\* C7: split_into_sentences cuts the text at a whitespace character if and
\* only if C7's rule holds there; the pieces are the text between the cuts;
\* every returned sentence is trimmed and non-empty; the sentences keep the
\* input order and hold all non-whitespace characters of the text; and
\* "Dr. Smith arrived. He was late." splits only after "arrived.".
C7_SplitsExactlyAtSentenceEnds ==
    sen_pc = "done" =>
        /\ {CutAfter(sen_pieces, k) : k \in 1..(Len(sen_pieces) - 1)}
               = {i \in 1..Len(sen_text) : SplitPoint(sen_text, i)}
        /\ \A k \in 1..Len(sen_pieces) :
               sen_pieces[k] = SubSeq(sen_text, CutAfter(sen_pieces, k - 1) + 1,
                                      CutAfter(sen_pieces, k) - 1)
        /\ CutAfter(sen_pieces, Len(sen_pieces)) = Len(sen_text) + 1
        /\ \A k \in 1..Len(sen_result) :
               /\ Len(sen_result[k]) > 0
               /\ sen_result[k][1] \notin Whitespace
               /\ sen_result[k][Len(sen_result[k])] \notin Whitespace
        /\ NonWhitespace(Flatten(sen_result)) = NonWhitespace(sen_text)
        /\ sen_text = DrSmith =>
               sen_result = <<SubSeq(DrSmith, 1, 18), SubSeq(DrSmith, 20, 31)>>

\* "Dr. Smith arrived. He was late." has been split into its two sentences.
C7_Witness ==
    /\ sen_pc = "done"
    /\ sen_text = DrSmith
    /\ Len(sen_result) = 2

\* C8: a call interleaved with other calls returns exactly what it returns
\* when run alone on the same (text, maxSize).
C8_InterleavedCallEqualsSoloCall ==
    \A c \in Callers :
        frames[c].pc = "done" =>
            LET solo == recursive_chunk_text(frames[c].text, frames[c].max_chunk_size)
            IN  /\ frames[c].chunks = solo.chunks
                /\ frames[c].outcome = solo.outcome

\* Two calls on different texts have both returned, each several chunks.
C8_Witness ==
    \E c, d \in Callers :
        /\ c # d
        /\ ReturnedStr(c) /\ ReturnedStr(d)
        /\ frames[c].text # frames[d].text
        /\ Len(frames[c].chunks) >= 2
        /\ Len(frames[d].chunks) >= 2

\* C9: whenever a paragraph longer than maxSize is processed, whatever the
\* accumulator holds, the accumulator is flushed and emptied and the
\* paragraph is split into sentences: it is never installed unsplit as the
\* new accumulator.
C9_OversizedParagraphIsAlwaysSplit ==
    [][\A c \in Callers :
           (/\ HasParagraph(frames[c])
            /\ ParaTooLarge(frames[c])
            /\ frames'[c] # frames[c]) =>
               /\ frames'[c].pc = "sent"
               /\ frames'[c].sentences
                      = split_into_sentences(Head(frames[c].paragraphs))
               /\ frames'[c].current_chunk # Head(frames[c].paragraphs)]_vars

\* C10: the overflow test counts the joiner: a non-empty accumulator is
\* flushed before a paragraph exactly when len(accumulator) + len(separator)
\* + len(paragraph) > maxSize and the paragraph is appended otherwise, and
\* likewise for sentences, so a merge never makes an accumulator longer than
\* maxSize.
C10_OverflowTestCountsJoiner ==
    [][\A c \in Callers :
           /\ (/\ HasParagraph(frames[c])
               /\ Len(frames[c].current_chunk) > 0
               /\ frames'[c] # frames[c]) =>
                  LET cur  == frames[c].current_chunk
                      par  == Head(frames[c].paragraphs)
                      over == Len(cur) + 2 + Len(par) > frames[c].max_chunk_size
                  IN  /\ over <=> frames'[c].chunks = Append(frames[c].chunks, cur)
                      /\ ~over => /\ frames'[c].current_chunk = cur \o <<NL, NL>> \o par
                                  /\ Len(frames'[c].current_chunk)
                                         <= frames[c].max_chunk_size
           /\ (/\ HasSentence(frames[c])
               /\ Len(frames[c].sentence_chunk) > 0
               /\ frames'[c] # frames[c]) =>
                  LET cur  == frames[c].sentence_chunk
                      sen  == Head(frames[c].sentences)
                      over == Len(cur) + 1 + Len(sen) > frames[c].max_chunk_size
                  IN  /\ over <=> frames'[c].chunks = Append(frames[c].chunks, cur)
                      /\ ~over => /\ frames'[c].sentence_chunk = cur \o <<SP>> \o sen
                                  /\ Len(frames'[c].sentence_chunk)
                                         <= frames[c].max_chunk_size]_vars

\* The task t returned a non-empty text.
Extracted(t) == Len(futures[t].text) > 0

\* The tasks that are the first of their path to have returned a text.
FirstExtracted ==
    {t \in 1..Len(futures) :
        /\ Extracted(t)
        /\ \A u \in 1..(t - 1) : ~(Extracted(u) /\ futures[u].path = futures[t].path)}

\* The k-th smallest member of the set S of numbers.
KthOf(S, k) == CHOOSE x \in S : Cardinality({y \in S : y <= x}) = k

\* The last task of the path of task t that returned a text.
LastExtracted(t) ==
    CHOOSE u \in 1..Len(futures) :
        /\ Extracted(u)
        /\ futures[u].path = futures[t].path
        /\ \A v \in (u + 1)..Len(futures) :
               ~(Extracted(v) /\ futures[v].path = futures[t].path)

\* C11: whatever the interleaving and completion order of the workers, the
\* returned mapping is decided by image_paths and the extracted texts alone:
\* its keys are exactly the paths whose extraction returned a non-empty
\* text, in the order of image_paths, each with the text extracted for that
\* path (for a path listed twice: the place of its first text, the value of
\* its last); a failed or empty extraction only omits its own path; and the
\* call returns only after every submitted extraction has finished.
C11_ResultsDecidedByPathsAndTexts ==
    par_pc = "returned" =>
        /\ Len(futures) = Len(image_paths)
        /\ \A t \in 1..Len(futures) :
               /\ futures[t].path = image_paths[t]
               /\ futures[t].state = "finished"
        /\ Len(results) = Cardinality(FirstExtracted)
        /\ \A k \in 1..Len(results) :
               LET t == KthOf(FirstExtracted, k)
               IN  /\ results[k].path = image_paths[t]
                   /\ results[k].text = futures[LastExtracted(t)].text

\* A returned call of three tasks with max_workers = 1, in which one
\* extraction was empty or failed and the two other paths got different
\* texts.
C11_Witness ==
    /\ par_pc = "returned"
    /\ max_workers = 1
    /\ Len(image_paths) = 3
    /\ \E t \in 1..Len(futures) : ~Extracted(t)
    /\ Len(results) = 2
    /\ results[1].text # results[2].text

\* C12: after main has stored all sources with every upsert succeeding,
\* starting from an empty collection, every chunk counted into total_chunks
\* is still in the collection: no point was overwritten by a point of
\* another source, so the collection holds total_chunks points.
C12_EveryCountedChunkIsStored ==
    (main_pc = "done" /\ store_errors = 0) =>
        Cardinality(collection) = total_chunks

====
